---- MODULE Spec2Model ----
(***************************************************************************)
(* A model of scripts/check_docs.py (class DocChecker and main).           *)
(*                                                                         *)
(* Text is a sequence of characters, each character a one-character        *)
(* string; the backtick, which a TLA+ string cannot hold, is the atom      *)
(* Backtick.  The regular expressions of the script are modelled by        *)
(* matchers over such sequences that follow Python's re semantics          *)
(* (leftmost match, greedy quantifiers, findall scanning left to right     *)
(* over non-overlapping matches).                                          *)
(***************************************************************************)
EXTENDS Integers, Sequences, FiniteSets, TLC

VARIABLES
    pc,        \* position of main(): the check that runs next, or the exit
    cfgIdx,    \* index into config_mappings of the mapping checked next
    errors,    \* DocChecker.errors
    warnings,  \* DocChecker.warnings
    exitCode,  \* argument of sys.exit, "none" while the process runs
    cfgSeen,   \* state of the config source files read so far in this run
    ran,       \* the checks executed so far, in order
    last,      \* what the last executed check read and appended
    fn,        \* extractor/validator harness: "input", then "done"
    arg,       \* extractor/validator harness: the input text(s)
    res        \* extractor/validator harness: the value returned

vars == <<pc, cfgIdx, errors, warnings, exitCode, cfgSeen, ran, last, fn, arg, res>>

runVars == <<pc, cfgIdx, errors, warnings, exitCode, cfgSeen, ran, last>>

-----------------------------------------------------------------------------
(* Characters and text helpers *)

Backtick == "BACKTICK"

Quote == "\""

\* Python's \s on str, restricted to the ASCII members
Whitespace == {" ", "\t", "\n", "\r", "\f"}

UpperLetters ==
    <<"A", "B", "C", "D", "E", "F", "G", "H", "I", "J", "K", "L", "M",
      "N", "O", "P", "Q", "R", "S", "T", "U", "V", "W", "X", "Y", "Z">>

LowerLetters ==
    <<"a", "b", "c", "d", "e", "f", "g", "h", "i", "j", "k", "l", "m",
      "n", "o", "p", "q", "r", "s", "t", "u", "v", "w", "x", "y", "z">>

Digits == {"0", "1", "2", "3", "4", "5", "6", "7", "8", "9"}

Range(s) == {s[i] : i \in 1..Len(s)}

\* Python's \w on str, restricted to the ASCII members
WordChars == Range(UpperLetters) \cup Range(LowerLetters) \cup Digits \cup {"_"}

\* str.isupper() of a single character
IsUpper(c) == c \in Range(UpperLetters)

\* str.lower() of a single character
LowerChar(c) ==
    IF IsUpper(c)
    THEN LowerLetters[CHOOSE i \in 1..Len(UpperLetters) : UpperLetters[i] = c]
    ELSE c

\* str.lower()
Lower(t) == [i \in 1..Len(t) |-> LowerChar(t[i])]

\* the literal lit occurs in t at position i
StartsWithAt(t, i, lit) ==
    /\ i >= 1
    /\ i + Len(lit) - 1 <= Len(t)
    /\ \A k \in 1..Len(lit) : t[i + k - 1] = lit[k]

\* Python's "lit in t"
Contains(t, lit) == \E i \in 1..(Len(t) - Len(lit) + 1) : StartsWithAt(t, i, lit)

\* str.endswith
EndsWith(t, lit) == StartsWithAt(t, Len(t) - Len(lit) + 1, lit)

\* the least element of a non-empty set of numbers
Min(S) == CHOOSE x \in S : \A y \in S : x <= y

\* greedy [S]*: the first position at or after i whose character is not in S
SkipIn(t, i, S) ==
    CHOOSE j \in i..(Len(t) + 1) :
        /\ j = Len(t) + 1 \/ t[j] \notin S
        /\ \A k \in i..(j - 1) : t[k] \in S

\* greedy [^S]*: the first position at or after i whose character is in S
SkipNotIn(t, i, S) ==
    CHOOSE j \in i..(Len(t) + 1) :
        /\ j = Len(t) + 1 \/ t[j] \in S
        /\ \A k \in i..(j - 1) : t[k] \notin S

\* str.split(sep)[0] for a one-character separator
BeforeFirst(t, sep) == SubSeq(t, 1, SkipNotIn(t, 1, {sep}) - 1)

\* concatenation of a sequence of texts
RECURSIVE Concat(_)
Concat(ts) == IF ts = <<>> THEN <<>> ELSE Head(ts) \o Concat(Tail(ts))

NoMatch == [ok |-> FALSE, end |-> 0, groups |-> <<>>]

\* "([^"]+)" at position i, where t[i - 1] is the opening quote: the group
\* and the position after the closing quote
MatchQuoted(t, i) ==
    LET e == SkipNotIn(t, i, {Quote})
    IN  IF e > i /\ e <= Len(t)
        THEN [ok |-> TRUE, end |-> e + 1, groups |-> <<SubSeq(t, i, e - 1)>>]
        ELSE NoMatch

-----------------------------------------------------------------------------
(* _extract_flags_from_file: the two flag patterns *)

LitFlagsCall == <<".", "F", "l", "a", "g", "s", "(", ")", ".">>

LitCountP == <<"C", "o", "u", "n", "t", "P">>

LitOpenQuote == <<"(", "\"">>

\* the alternation (?:String|Int|Bool|Uint64|StringSlice), in its order
TypedSetters ==
    << <<"S", "t", "r", "i", "n", "g">>,
       <<"I", "n", "t">>,
       <<"B", "o", "o", "l">>,
       <<"U", "i", "n", "t", "6", "4">>,
       <<"S", "t", "r", "i", "n", "g", "S", "l", "i", "c", "e">> >>

\* r'\.Flags\(\)\.(?:String|Int|Bool|Uint64|StringSlice)\("([^"]+)"' at i
MatchTypedFlag(t, i) ==
    IF ~StartsWithAt(t, i, LitFlagsCall) THEN NoMatch
    ELSE LET j == i + Len(LitFlagsCall)
             alts == {k \in 1..Len(TypedSetters) :
                         StartsWithAt(t, j, TypedSetters[k] \o LitOpenQuote)}
         IN  IF alts = {} THEN NoMatch
             ELSE LET k == CHOOSE a \in alts : \A b \in alts : a <= b
                  IN  MatchQuoted(t, j + Len(TypedSetters[k]) + Len(LitOpenQuote))

\* r'\.Flags\(\)\.CountP\("([^"]+)",\s*"([^"]+)"' at i
MatchCountPFlag(t, i) ==
    IF ~StartsWithAt(t, i, LitFlagsCall \o LitCountP \o LitOpenQuote) THEN NoMatch
    ELSE LET long == MatchQuoted(t, i + Len(LitFlagsCall \o LitCountP \o LitOpenQuote))
         IN  IF ~long.ok \/ ~StartsWithAt(t, long.end, <<",">>) THEN NoMatch
             ELSE LET q == SkipIn(t, long.end + 1, Whitespace)
                  IN  IF ~StartsWithAt(t, q, <<Quote>>) THEN NoMatch
                      ELSE LET short == MatchQuoted(t, q + 1)
                           IN  IF ~short.ok THEN NoMatch
                               ELSE [ok |-> TRUE, end |-> short.end,
                                     groups |-> long.groups \o short.groups]

-----------------------------------------------------------------------------
(* _extract_cheatcodes: the registration pattern *)

LitAddMethod == <<"a", "d", "d", "M", "e", "t", "h", "o", "d", "(">>

\* r'addMethod\(\s*"([^"]+)"' at i
MatchAddMethod(t, i) ==
    IF ~StartsWithAt(t, i, LitAddMethod) THEN NoMatch
    ELSE LET q == SkipIn(t, i + Len(LitAddMethod), Whitespace)
         IN  IF ~StartsWithAt(t, q, <<Quote>>) THEN NoMatch
             ELSE MatchQuoted(t, q + 1)

-----------------------------------------------------------------------------
(* _extract_config_fields: the field pattern *)

LitJsonTag == <<Backtick, "j", "s", "o", "n", ":", "\"">>

\* r'(\w+)\s+([^\s`]+)\s*`json:"([^"]+)"' at i.  Every quantifier is greedy
\* and is followed by a character class disjoint from its own, so no
\* backtracking into a shorter repetition can succeed.
MatchField(t, i) ==
    LET a == SkipIn(t, i, WordChars)
        b == SkipIn(t, a, Whitespace)
        c == SkipNotIn(t, b, Whitespace \cup {Backtick})
        d == SkipIn(t, c, Whitespace)
    IN  IF a = i \/ b = a \/ c = b \/ ~StartsWithAt(t, d, LitJsonTag) THEN NoMatch
        ELSE LET tag == MatchQuoted(t, d + Len(LitJsonTag))
             IN  IF ~tag.ok THEN NoMatch
                 ELSE [ok |-> TRUE, end |-> tag.end,
                       groups |-> <<SubSeq(t, i, a - 1), SubSeq(t, b, c - 1)>>
                                      \o tag.groups]

-----------------------------------------------------------------------------
(* re.findall *)

MatchAt(pattern, t, i) ==
    CASE pattern = "typed_flag" -> MatchTypedFlag(t, i)
      [] pattern = "countp_flag" -> MatchCountPFlag(t, i)
      [] pattern = "add_method" -> MatchAddMethod(t, i)
      [] pattern = "field" -> MatchField(t, i)

\* re.findall(pattern, t): the groups of the non-overlapping matches, found
\* scanning from position i
RECURSIVE FindAllFrom(_, _, _)
FindAllFrom(pattern, t, i) ==
    LET starts == {j \in i..Len(t) : MatchAt(pattern, t, j).ok}
    IN  IF starts = {} THEN <<>>
        ELSE LET m == MatchAt(pattern, t, Min(starts))
             IN  <<m.groups>> \o FindAllFrom(pattern, t, m.end)

FindAll(pattern, t) == FindAllFrom(pattern, t, 1)

\* the loop of _extract_flags_from_file over flag_patterns: the first group
\* of every match (match[0] of a CountP tuple, the match itself otherwise)
ExtractFlags(content) ==
    {m[1] : m \in Range(FindAll("typed_flag", content))}
        \cup {m[1] : m \in Range(FindAll("countp_flag", content))}

\* cheatcodes.update(matches): the set of distinct registration strings
ExtractCheatcodes(content) ==
    {m[1] : m \in Range(FindAll("add_method", content))}

\* a variant of BaseMethods that keeps the parameter lists
BaseMethodsUnsplit(cheatcodes) == cheatcodes

\* base_methods = {cheatcode.split("(")[0] for cheatcode in cheatcodes}
BaseMethods(cheatcodes) == {BeforeFirst(c, "(") : c \in cheatcodes}

-----------------------------------------------------------------------------
(* _extract_config_fields *)

LitType == <<"t", "y", "p", "e", " ">>

LitStruct == <<" ", "s", "t", "r", "u", "c", "t">>

LitOmitEmpty == <<",", "o", "m", "i", "t", "e", "m", "p", "t", "y">>

LitConfigSuffix == <<"C", "o", "n", "f", "i", "g">>

N_FuzzingConfig ==

    <<"F", "u", "z", "z", "i", "n", "g", "C", "o", "n", "f", "i", "g">>

N_TestingConfig ==

    <<"T", "e", "s", "t", "i", "n", "g", "C", "o", "n", "f", "i", "g">>

N_AssertionTestingConfig ==

    <<"A", "s", "s", "e", "r", "t", "i", "o", "n", "T", "e", "s", "t", "i", "n", "g", "C", "o", "n", "f", "i", "g">>

N_PropertyTestingConfig ==

    <<"P", "r", "o", "p", "e", "r", "t", "y", "T", "e", "s", "t", "i", "n", "g", "C", "o", "n", "f", "i", "g">>

N_OptimizationTestingConfig ==

    <<"O", "p", "t", "i", "m", "i", "z", "a", "t", "i", "o", "n", "T", "e", "s", "t", "i", "n", "g", "C", "o", "n", "f", "i", "g">>

N_TestChainConfig ==

    <<"T", "e", "s", "t", "C", "h", "a", "i", "n", "C", "o", "n", "f", "i", "g">>

N_CheatCodeConfig ==

    <<"C", "h", "e", "a", "t", "C", "o", "d", "e", "C", "o", "n", "f", "i", "g">>

N_ForkConfig ==

    <<"F", "o", "r", "k", "C", "o", "n", "f", "i", "g">>

N_CompilationConfig ==

    <<"C", "o", "m", "p", "i", "l", "a", "t", "i", "o", "n", "C", "o", "n", "f", "i", "g">>

N_LoggingConfig ==

    <<"L", "o", "g", "g", "i", "n", "g", "C", "o", "n", "f", "i", "g">>

\* the literal list of nested struct types of line 263
NestedConfigTypes == {N_TestingConfig, N_CheatCodeConfig, N_ForkConfig}

\* rf"type {struct_name} struct\s*{{([^}}]+)}}" at i: the struct body
MatchStruct(struct_name, t, i) ==
    LET head == LitType \o struct_name \o LitStruct
    IN  IF ~StartsWithAt(t, i, head) THEN NoMatch
        ELSE LET b == SkipIn(t, i + Len(head), Whitespace)
             IN  IF ~StartsWithAt(t, b, <<"{">>) THEN NoMatch
                 ELSE LET e == SkipNotIn(t, b + 1, {"}"})
                      IN  IF e > b + 1 /\ e <= Len(t)
                          THEN [ok |-> TRUE, end |-> e + 1,
                                groups |-> <<SubSeq(t, b + 1, e - 1)>>]
                          ELSE NoMatch

\* re.search(struct_pattern, content, re.DOTALL): the leftmost match
SearchStruct(struct_name, t) ==
    LET starts == {j \in 1..Len(t) : MatchStruct(struct_name, t, j).ok}
    IN  IF starts = {} THEN NoMatch ELSE MatchStruct(struct_name, t, Min(starts))

\* the dict fields: a sequence of [key, struct] in insertion order
DictKeys(d) == {d[i].key : i \in 1..Len(d)}

\* fields[key] = struct: an existing key keeps its place and takes the new
\* value, a new key is appended
DictSet(d, key, struct) ==
    IF key \in DictKeys(d)
    THEN [i \in 1..Len(d) |-> IF d[i].key = key THEN [key |-> key, struct |-> struct]
                                                ELSE d[i]]
    ELSE Append(d, [key |-> key, struct |-> struct])

\* a variant of FieldSkipped without the omitempty test of line 255
FieldSkippedKeepsOmitEmpty(go_field_name, field_type, json_field_name) ==
    \/ ~IsUpper(go_field_name[1])
    \/ EndsWith(field_type, LitConfigSuffix)
    \/ field_type \in NestedConfigTypes

\* the tests of lines 251, 255 and 263: the field is skipped
FieldSkipped(go_field_name, field_type, json_field_name) ==
    \/ ~IsUpper(go_field_name[1])
    \/ Contains(json_field_name, LitOmitEmpty)
    \/ EndsWith(field_type, LitConfigSuffix)
    \/ field_type \in NestedConfigTypes

\* json_field_name.split(',')[0]
FieldKey(json_field_name) == BeforeFirst(json_field_name, ",")

\* the loop over field_matches of one struct, from match k on
RECURSIVE AddFields(_, _, _, _)
AddFields(d, matches, k, struct_name) ==
    IF k > Len(matches) THEN d
    ELSE LET m == matches[k]
         IN  IF FieldSkipped(m[1], m[2], m[3])
             THEN AddFields(d, matches, k + 1, struct_name)
             ELSE AddFields(DictSet(d, FieldKey(m[3]), struct_name),
                            matches, k + 1, struct_name)

\* the loop over struct_names, from name k on
RECURSIVE ExtractStructs(_, _, _, _)
ExtractStructs(d, content, struct_names, k) ==
    IF k > Len(struct_names) THEN d
    ELSE LET sm == SearchStruct(struct_names[k], content)
         IN  IF ~sm.ok THEN ExtractStructs(d, content, struct_names, k + 1)
             ELSE ExtractStructs(
                      AddFields(d, FindAll("field", sm.groups[1]), 1, struct_names[k]),
                      content, struct_names, k + 1)

\* _extract_config_fields on the text of an existing source file
ExtractConfigFields(content, struct_names) ==
    ExtractStructs(<<>>, content, struct_names, 1)

-----------------------------------------------------------------------------
(* Diagnostics and the presence tests of the three validators.  A message   *)
(* is a record of the format string used (kind) and the values it embeds.   *)

Diag(kind, name, label, file) ==
    [kind |-> kind, name |-> name, label |-> label, file |-> file]

LitDashes == <<"-", "-">>

LitFunction == <<"f", "u", "n", "c", "t", "i", "o", "n", " ">>

LitHeading == <<"#", "#", " ">>

\* line 100: f"--{flag}" in doc_content or f"`{flag}`" in doc_content
FlagDocumented(flag, doc_content) ==
    \/ Contains(doc_content, LitDashes \o flag)
    \/ Contains(doc_content, <<Backtick>> \o flag \o <<Backtick>>)

\* line 163: f"function {method_name}(" in interface_content
CheatcodeDocumented(method_name, interface_content) ==
    Contains(interface_content, LitFunction \o method_name \o <<"(">>)

\* line 285: f"`{field_name}`" in doc_content
\*           or f"## {field_name}" in doc_content.lower()
ConfigFieldDocumented(field_name, doc_content) ==
    \/ Contains(doc_content, <<Backtick>> \o field_name \o <<Backtick>>)
    \/ Contains(Lower(doc_content), LitHeading \o field_name)

\* the orders in which a for loop can visit a set (the iteration order of a
\* Python set of str depends on the per-process hash seed)
Orders(S) ==
    {q \in [1..Cardinality(S) -> S] : \A i, j \in 1..Cardinality(S) : q[i] = q[j] => i = j}

\* the loop of _validate_flags_documented visiting the flags in order q
FlagErrors(q, command, doc_file) ==
    [i \in 1..Len(q) |-> Diag("flag_not_documented", q[i], command, doc_file)]

\* lines 97-103, on the text of an existing documentation file: the
\* sequences of errors the loop can append
ValidateFlags(flags, command, doc_file, doc_content) ==
    {FlagErrors(q, command, doc_file) :
        q \in Orders({f \in flags : ~FlagDocumented(f, doc_content)})}

InterfaceFile == "docs/src/cheatcodes/cheatcodes_overview.md"

\* lines 160-166, on the text of an existing interface file
ValidateCheatcodes(base_methods, interface_content) ==
    {[i \in 1..Len(q) |-> Diag("cheatcode_not_in_interface", q[i], <<>>, InterfaceFile)] :
        q \in Orders({m \in base_methods : ~CheatcodeDocumented(m, interface_content)})}

\* lines 282-288, on the text of an existing documentation file: the dict is
\* visited in insertion order
RECURSIVE ConfigFieldErrors(_, _, _, _)
ConfigFieldErrors(fields, k, doc_file, doc_content) ==
    IF k > Len(fields) THEN <<>>
    ELSE (IF ConfigFieldDocumented(fields[k].key, doc_content) THEN <<>>
          ELSE <<Diag("config_field_not_documented", fields[k].key,
                      fields[k].struct, doc_file)>>)
         \o ConfigFieldErrors(fields, k + 1, doc_file, doc_content)

ValidateConfigFields(fields, doc_file, doc_content) ==
    ConfigFieldErrors(fields, 1, doc_file, doc_content)

-----------------------------------------------------------------------------
(* The files a run can find under the repository root.  exists() is false  *)
(* of an absent file; read_text() raises on an unreadable one (a           *)
(* directory, a permission or decoding failure) and returns the text       *)
(* otherwise.                                                              *)

FlagSrcTwo ==
    <<"c", ".", "F", "l", "a", "g", "s", "(", ")", ".", "I", "n", "t", "(",
      "\"", "a", "b", "\"", ",", " ", "0", ",", " ", "\"", "u", "\"", ")",
      "\n", "c", ".", "F", "l", "a", "g", "s", "(", ")", ".", "C", "o", "u",
      "n", "t", "P", "(", "\"", "c", "d", "\"", ",", " ", "\"", "v", "\"",
      ",", " ", "\"", "u", "\"", ")", "\n">>

FlagSrcNone ==
    <<"p", "a", "c", "k", "a", "g", "e", " ", "c", "m", "d", "\n">>

FlagDocBoth ==
    <<"-", "-", "a", "b", "\n", Backtick, "c", "d", Backtick, "\n">>

FlagDocOne ==
    <<"-", "-", "a", "b", "\n">>

CheatSrcThree ==
    <<"a", "d", "d", "M", "e", "t", "h", "o", "d", "(", "\"", "f", "(", "a",
      ")", "\"", ",", " ", "x", ")", "\n", "a", "d", "d", "M", "e", "t", "h",
      "o", "d", "(", "\"", "f", "(", "b", ")", "\"", ",", " ", "x", ")",
      "\n", "a", "d", "d", "M", "e", "t", "h", "o", "d", "(", "\n", "\t",
      "\"", "g", "(", ")", "\"", ",", " ", "x", ")", "\n">>

InterfaceBoth ==
    <<"f", "u", "n", "c", "t", "i", "o", "n", " ", "f", "(", "a", ")", "\n",
      "f", "u", "n", "c", "t", "i", "o", "n", " ", "g", "(", ")", "\n">>

InterfaceOne ==
    <<"f", "u", "n", "c", "t", "i", "o", "n", " ", "f", "(", "a", ")", "\n">>

InterfaceNone ==
    <<"f", " ", "a", "n", "d", " ", "g", "\n">>

ConfigSrcText ==
    <<"t", "y", "p", "e", " ", "F", "u", "z", "z", "i", "n", "g", "C", "o",
      "n", "f", "i", "g", " ", "s", "t", "r", "u", "c", "t", " ", "{", "\n",
      "\t", "W", " ", "i", "n", "t", " ", Backtick, "j", "s", "o", "n", ":",
      "\"", "w", "\"", Backtick, "\n", "\t", "T", " ", "T", "e", "s", "t",
      "i", "n", "g", "C", "o", "n", "f", "i", "g", " ", Backtick, "j", "s",
      "o", "n", ":", "\"", "t", "\"", Backtick, "\n", "}", "\n", "t", "y",
      "p", "e", " ", "T", "e", "s", "t", "i", "n", "g", "C", "o", "n", "f",
      "i", "g", " ", "s", "t", "r", "u", "c", "t", " ", "{", "\n", "\t", "A",
      "B", " ", "b", "o", "o", "l", " ", Backtick, "j", "s", "o", "n", ":",
      "\"", "a", "B", "\"", Backtick, "\n", "\t", "O", " ", "i", "n", "t",
      " ", Backtick, "j", "s", "o", "n", ":", "\"", "o", ",", "o", "m", "i",
      "t", "e", "m", "p", "t", "y", "\"", Backtick, "\n", "}", "\n", "t",
      "y", "p", "e", " ", "T", "e", "s", "t", "C", "h", "a", "i", "n", "C",
      "o", "n", "f", "i", "g", " ", "s", "t", "r", "u", "c", "t", " ", "{",
      "\n", "\t", "C", " ", "i", "n", "t", " ", Backtick, "j", "s", "o", "n",
      ":", "\"", "c", "\"", Backtick, "\n", "}", "\n", "t", "y", "p", "e",
      " ", "C", "o", "m", "p", "i", "l", "a", "t", "i", "o", "n", "C", "o",
      "n", "f", "i", "g", " ", "s", "t", "r", "u", "c", "t", " ", "{", "\n",
      "\t", "P", " ", "s", "t", "r", "i", "n", "g", " ", Backtick, "j", "s",
      "o", "n", ":", "\"", "p", ",", "s", "t", "r", "i", "n", "g", "\"",
      Backtick, "\n", "}", "\n">>

ConfigDocTicks ==
    <<Backtick, "w", Backtick, " ", Backtick, "a", "B", Backtick, " ",
      Backtick, "c", Backtick, " ", Backtick, "p", Backtick, "\n">>

ConfigDocHeadings ==
    <<"#", "#", " ", "w", "\n", "#", "#", " ", "a", "B", "\n", "#", "#", " ",
      "c", "\n", "#", "#", " ", "p", "\n">>

ConfigDocNone ==
    <<"#", " ", "C", "o", "n", "f", "i", "g", "\n">>

CmdFuzz ==
    <<"f", "u", "z", "z">>

CmdInit ==
    <<"i", "n", "i", "t">>


Absent == [st |-> "absent", text |-> <<>>]

Unreadable == [st |-> "unreadable", text |-> <<>>]

Unseen == [st |-> "unseen", text |-> <<>>]

FileStates(texts) ==
    {Absent, Unreadable} \cup {[st |-> "ok", text |-> t] : t \in texts}

FlagSrcTexts == {FlagSrcTwo, FlagSrcNone}

FlagSrcFiles == FileStates(FlagSrcTexts)

FlagDocFiles == FileStates({FlagDocBoth, FlagDocOne})

CheatSrcTexts == {CheatSrcThree}

CheatSrcFiles == FileStates(CheatSrcTexts)

InterfaceFiles == FileStates({InterfaceBoth, InterfaceOne, InterfaceNone})

ConfigSrcTexts == {ConfigSrcText}

ConfigSrcFiles == FileStates(ConfigSrcTexts)

ConfigDocFiles == FileStates({ConfigDocTicks, ConfigDocHeadings, ConfigDocNone})

FuzzFlagsGo == "cmd/fuzz_flags.go"

InitFlagsGo == "cmd/init_flags.go"

FuzzMd == "docs/src/cli/fuzz.md"

InitMd == "docs/src/cli/init.md"

CheatcodeSource == "chain/standard_cheat_code_contract.go"

\* config_mappings of check_config_fields
ConfigMappings ==
    << [source_file |-> "fuzzing/config/config.go",
        struct_names |-> <<N_FuzzingConfig>>,
        doc_file |-> "docs/src/project_configuration/fuzzing_config.md"],
       [source_file |-> "fuzzing/config/config.go",
        struct_names |-> <<N_TestingConfig, N_AssertionTestingConfig,
                           N_PropertyTestingConfig, N_OptimizationTestingConfig>>,
        doc_file |-> "docs/src/project_configuration/testing_config.md"],
       [source_file |-> "chain/config/config.go",
        struct_names |-> <<N_TestChainConfig, N_CheatCodeConfig, N_ForkConfig>>,
        doc_file |-> "docs/src/project_configuration/chain_config.md"],
       [source_file |-> "compilation/compilation_config.go",
        struct_names |-> <<N_CompilationConfig>>,
        doc_file |-> "docs/src/project_configuration/compilation_config.md"],
       [source_file |-> "fuzzing/config/config.go",
        struct_names |-> <<N_LoggingConfig>>,
        doc_file |-> "docs/src/project_configuration/logging_config.md"] >>

ConfigSources == {ConfigMappings[i].source_file : i \in 1..Len(ConfigMappings)}

\* the extractors applied to the source texts a run can read, computed once
FlagsOfText == [t \in FlagSrcTexts |-> ExtractFlags(t)]

CheatcodesOfText == [t \in CheatSrcTexts |-> ExtractCheatcodes(t)]

FieldsOfText ==
    [i \in 1..Len(ConfigMappings) |->
        [t \in ConfigSrcTexts |-> ExtractConfigFields(t, ConfigMappings[i].struct_names)]]

\* the pairings of a run in the order main() reaches them, each named by its
\* documentation file
Pairings ==
    <<FuzzMd, InitMd, InterfaceFile>>
        \o [i \in 1..Len(ConfigMappings) |-> ConfigMappings[i].doc_file]

-----------------------------------------------------------------------------
(* main() and the checks of DocChecker *)

\* a variant of AddAll that assigns the list instead of appending to it
AddAllOverwriting(list, new) == new

\* list.append, once per new message
AddAll(list, new) == list \o new

\* what a check leaves in last: the pairing, the states of its source and
\* documentation files, the symbols extracted, the lengths of the two lists
\* before it ran and whether it raised
Entry(check, src, syms, doc, raised) ==
    [check |-> check, src |-> src, syms |-> syms, doc |-> doc,
     errBefore |-> Len(errors), warnBefore |-> Len(warnings), raised |-> raised]

InitRun ==
    /\ pc = "fuzz_flags"
    /\ cfgIdx = 1
    /\ errors = <<>>
    /\ warnings = <<>>
    /\ exitCode = "none"
    /\ cfgSeen = [f \in ConfigSources |-> Unseen]
    /\ ran = <<>>
    /\ last = [check |-> "none", src |-> "none", syms |-> {}, doc |-> "none",
               errBefore |-> 0, warnBefore |-> 0, raised |-> FALSE]

HarnessIdle == fn = "idle" /\ arg = <<>> /\ res = <<>>

Init == InitRun /\ HarnessIdle

\* a variant of FlagSourceNotFound that returns the empty set silently
FlagSourceNotFoundSilent(file_path) == <<>>

\* lines 61-63: the message appended for an absent flag source file
FlagSourceNotFound(file_path) == <<Diag("source_not_found", <<>>, <<>>, file_path)>>

\* lines 132-136: the message appended for an absent cheatcode source file
CheatcodeSourceNotFound ==
    <<Diag("cheatcode_source_not_found", <<>>, <<>>, CheatcodeSource)>>

\* lines 227-229: the messages appended for an absent config source file,
\* as [errors, warnings]
ConfigSourceNotFound(source_file) ==
    [errors |-> <<>>,
     warnings |-> <<Diag("config_source_not_found", <<>>, <<>>, source_file)>>]

\* _extract_flags_from_file followed by _validate_flags_documented for one
\* command (lines 47-48 or 51-52)
CheckFlags(command, file_path, doc_file, next) ==
    \E src \in FlagSrcFiles, doc \in FlagDocFiles :
        LET found == IF src.st = "absent" THEN FlagSourceNotFound(file_path) ELSE <<>>
            flags == IF src.st = "ok" THEN FlagsOfText[src.text] ELSE {}
        IN  /\ ran' = Append(ran, doc_file)
            /\ UNCHANGED <<cfgIdx, warnings, exitCode, cfgSeen, fn, arg, res>>
            /\ IF src.st = "unreadable"
               THEN /\ errors' = errors
                    /\ pc' = "except"
                    /\ last' = Entry(doc_file, src.st, flags, doc.st, TRUE)
               ELSE IF doc.st = "unreadable"
               THEN /\ errors' = AddAll(errors, found)
                    /\ pc' = "except"
                    /\ last' = Entry(doc_file, src.st, flags, doc.st, TRUE)
               ELSE \E appended \in
                        (IF doc.st = "absent"
                         THEN {<<Diag("doc_not_found", <<>>, <<>>, doc_file)>>}
                         ELSE ValidateFlags(flags, command, doc_file, doc.text)) :
                        /\ errors' = AddAll(errors, found \o appended)
                        /\ pc' = next
                        /\ last' = Entry(doc_file, src.st, flags, doc.st, FALSE)

\* check_cli_flags, lines 47-48
CheckFuzzFlags ==
    /\ pc = "fuzz_flags"
    /\ CheckFlags(CmdFuzz, FuzzFlagsGo, FuzzMd, "init_flags")

\* check_cli_flags, lines 51-54
CheckInitFlags ==
    /\ pc = "init_flags"
    /\ CheckFlags(CmdInit, InitFlagsGo, InitMd, "cheatcodes")

\* check_cheatcodes
CheckCheatcodes ==
    /\ pc = "cheatcodes"
    /\ \E src \in CheatSrcFiles, doc \in InterfaceFiles :
        LET found == IF src.st = "absent" THEN CheatcodeSourceNotFound ELSE <<>>
            cheatcodes == IF src.st = "ok" THEN CheatcodesOfText[src.text] ELSE {}
            base_methods == BaseMethods(cheatcodes)
        IN  /\ ran' = Append(ran, InterfaceFile)
            /\ UNCHANGED <<cfgIdx, warnings, exitCode, cfgSeen, fn, arg, res>>
            /\ IF src.st = "unreadable"
               THEN /\ errors' = errors
                    /\ pc' = "except"
                    /\ last' = Entry(InterfaceFile, src.st, base_methods, doc.st, TRUE)
               ELSE IF doc.st = "unreadable"
               THEN /\ errors' = AddAll(errors, found)
                    /\ pc' = "except"
                    /\ last' = Entry(InterfaceFile, src.st, base_methods, doc.st, TRUE)
               ELSE \E appended \in
                        (IF doc.st = "absent"
                         THEN {<<Diag("interface_not_found", <<>>, <<>>, InterfaceFile)>>}
                         ELSE ValidateCheatcodes(base_methods, doc.text)) :
                        /\ errors' = AddAll(errors, found \o appended)
                        /\ pc' = "config"
                        /\ last' = Entry(InterfaceFile, src.st, base_methods, doc.st, FALSE)

\* line 210: the validator runs for this mapping
ValidatesMapping(fields) == fields # <<>>

\* check_config_fields: one iteration of the loop over config_mappings
\* (lines 207-211); the source file keeps the state it had when first read
CheckConfigMapping ==
    /\ pc = "config"
    /\ LET m == ConfigMappings[cfgIdx]
       IN  \E src \in (IF cfgSeen[m.source_file] = Unseen THEN ConfigSrcFiles
                       ELSE {cfgSeen[m.source_file]}),
              doc \in ConfigDocFiles :
            LET found == IF src.st = "absent" THEN ConfigSourceNotFound(m.source_file)
                         ELSE [errors |-> <<>>, warnings |-> <<>>]
                fields == IF src.st = "ok" THEN FieldsOfText[cfgIdx][src.text] ELSE <<>>
                next == IF cfgIdx = Len(ConfigMappings) THEN "report" ELSE "config"
                nextIdx == IF cfgIdx = Len(ConfigMappings) THEN cfgIdx ELSE cfgIdx + 1
            IN  /\ ran' = Append(ran, m.doc_file)
                /\ cfgSeen' = [cfgSeen EXCEPT ![m.source_file] = src]
                /\ UNCHANGED <<exitCode, fn, arg, res>>
                /\ IF src.st = "unreadable"
                   THEN /\ errors' = errors
                        /\ warnings' = warnings
                        /\ pc' = "except"
                        /\ cfgIdx' = cfgIdx
                        /\ last' = Entry(m.doc_file, src.st, DictKeys(fields), doc.st, TRUE)
                   ELSE IF ~ValidatesMapping(fields)
                   THEN /\ errors' = AddAll(errors, found.errors)
                        /\ warnings' = AddAll(warnings, found.warnings)
                        /\ pc' = next
                        /\ cfgIdx' = nextIdx
                        /\ last' = Entry(m.doc_file, src.st, DictKeys(fields), doc.st, FALSE)
                   ELSE IF doc.st = "unreadable"
                   THEN /\ errors' = AddAll(errors, found.errors)
                        /\ warnings' = AddAll(warnings, found.warnings)
                        /\ pc' = "except"
                        /\ cfgIdx' = cfgIdx
                        /\ last' = Entry(m.doc_file, src.st, DictKeys(fields), doc.st, TRUE)
                   ELSE /\ errors' = AddAll(errors, found.errors \o
                               (IF doc.st = "absent"
                                THEN <<Diag("config_doc_not_found", <<>>, <<>>, m.doc_file)>>
                                ELSE ValidateConfigFields(fields, m.doc_file, doc.text)))
                        /\ warnings' = AddAll(warnings, found.warnings)
                        /\ pc' = next
                        /\ cfgIdx' = nextIdx
                        /\ last' = Entry(m.doc_file, src.st, DictKeys(fields), doc.st, FALSE)

\* a variant of ReportExitCode that tolerates a single error
ReportExitCodeOffByOne(errs) == IF Len(errs) > 1 THEN 1 ELSE 0

\* report, lines 300-312: the argument of sys.exit
ReportExitCode(errs) == IF errs # <<>> THEN 1 ELSE 0

\* report, reached from line 337
Report ==
    /\ pc = "report"
    /\ exitCode' = ReportExitCode(errors)
    /\ pc' = "exit"
    /\ UNCHANGED <<cfgIdx, errors, warnings, cfgSeen, ran, last, fn, arg, res>>

\* a variant of ExceptionExit that swallows the exception and goes on to
\* report()
ExceptionExitSwallowed == [pc |-> "report", code |-> "none"]

\* main, lines 331-335: where the except clause leaves the process
ExceptionExit == [pc |-> "exit", code |-> 1]

\* main, lines 331-335: the except clause
HandleException ==
    /\ pc = "except"
    /\ exitCode' = ExceptionExit.code
    /\ pc' = ExceptionExit.pc
    /\ UNCHANGED <<cfgIdx, errors, warnings, cfgSeen, ran, last, fn, arg, res>>

Next ==
    \/ CheckFuzzFlags
    \/ CheckInitFlags
    \/ CheckCheatcodes
    \/ CheckConfigMapping
    \/ Report
    \/ HandleException

Spec == Init /\ [][Next]_vars

\* main() is one sequential process: it takes its next step while it has one
FairSpec == Spec /\ WF_vars(Next)

-----------------------------------------------------------------------------
(* Properties of a run *)

IsPrefix(a, b) == Len(a) <= Len(b) /\ SubSeq(b, 1, Len(a)) = a

\* the messages the last check appended
NewErrors == SubSeq(errors, last.errBefore + 1, Len(errors))

NewWarnings == SubSeq(warnings, last.warnBefore + 1, Len(warnings))

FlagPairings == {FuzzMd, InitMd}

ConfigPairings == {ConfigMappings[i].doc_file : i \in 1..Len(ConfigMappings)}

SourceMissingKinds == {"source_not_found", "cheatcode_source_not_found"}

DocMissingKinds == {"doc_not_found", "interface_not_found", "config_doc_not_found"}

SymbolKinds ==
    {"flag_not_documented", "cheatcode_not_in_interface", "config_field_not_documented"}

\* the run ended through report(): every check returned without raising
EndedByReport == pc = "exit" /\ ~last.raised

\* C1: in a run without an exception, once the three checks have run,
\* report() exits with 1 exactly when the error list holds at least one
\* error and with 0 otherwise, whatever the number of warnings.
C1_ReportExitCode ==
    EndedByReport =>
        /\ ran = Pairings
        /\ exitCode \in {0, 1}
        /\ exitCode = 1 <=> Len(errors) >= 1
        /\ errors = <<>> => exitCode = 0

C1_Witness ==
    /\ EndedByReport
    /\ errors = <<>>
    /\ Len(warnings) >= 2
    /\ exitCode = 0

\* C3: a check whose documentation file is absent appends exactly one error
\* about that file and no error about a symbol, whatever was extracted.
C3_MissingDocOneError ==
    (last.check # "none" /\ last.doc = "absent" /\ ~last.raised) =>
        /\ Cardinality({i \in 1..Len(NewErrors) :
                           /\ NewErrors[i].kind \in DocMissingKinds
                           /\ NewErrors[i].file = last.check}) = 1
        /\ \A i \in 1..Len(NewErrors) : NewErrors[i].kind \notin SymbolKinds

\* C4: absent files and undocumented symbols never stop the run: the two
\* lists only grow, the pairings are taken in declaration order, only a
\* failing read diverts main(), the process always ends, and when no read
\* failed it ends through report() after all eight pairings.
C4_ChecksRunToCompletion ==
    /\ [][IsPrefix(errors, errors') /\ IsPrefix(warnings, warnings')]_vars
    /\ [](IsPrefix(ran, Pairings))
    /\ [](pc = "except" => (last.src = "unreadable" \/ last.doc = "unreadable"))
    /\ []((pc = "exit" /\ ~last.raised) => (ran = Pairings /\ exitCode \in {0, 1}))
    /\ <>(pc = "exit")

C4_Witness ==
    /\ EndedByReport
    /\ ran = Pairings
    /\ Len(errors) >= 4
    /\ errors[1].kind = "source_not_found"
    /\ errors[2].kind = "doc_not_found"
    /\ errors[Len(errors)].kind = "config_field_not_documented"
    /\ Len(warnings) >= 1

\* C5: an exception raised by a check ends the process at once with exit
\* code 1: no later pairing runs, nothing more is appended, and the run does
\* not end with 0, however many errors the list holds.
C5_ExceptionEndsRun ==
    /\ [][pc = "except" =>
            /\ pc' = "exit"
            /\ exitCode' = 1
            /\ ran' = ran
            /\ errors' = errors
            /\ warnings' = warnings]_vars
    /\ [](last.raised =>
            /\ pc \in {"except", "exit"}
            /\ ran[Len(ran)] = last.check
            /\ (pc = "exit" => exitCode = 1))

C5_Witness ==
    /\ pc = "exit"
    /\ last.raised
    /\ errors = <<>>
    /\ exitCode = 1
    /\ Len(ran) < Len(Pairings)

\* C6: an absent flag or cheatcode source file appends an error and the run
\* ends in failure; an absent config source file appends one warning and no
\* error for its mapping, and a run whose only problem is absent config
\* source files ends with 0.
C6_MissingSourceNotSilent ==
    /\ (last.src = "absent" /\ last.check \in FlagPairings \cup {InterfaceFile}) =>
          /\ Len(NewErrors) >= 1
          /\ NewErrors[1].kind \in SourceMissingKinds
    /\ (pc = "exit" /\ \E i \in 1..Len(errors) : errors[i].kind \in SourceMissingKinds) =>
          exitCode = 1
    /\ (last.src = "absent" /\ last.check \in ConfigPairings) =>
          /\ NewErrors = <<>>
          /\ Len(NewWarnings) = 1
          /\ NewWarnings[1].kind = "config_source_not_found"
    /\ (/\ EndedByReport
        /\ \A f \in ConfigSources : cfgSeen[f] = Absent
        /\ \A i \in 1..Len(errors) : errors[i].file \in ConfigPairings) =>
          /\ exitCode = 0
          /\ Len(warnings) = Len(ConfigMappings)

C6_Witness ==
    /\ EndedByReport
    /\ \A f \in ConfigSources : cfgSeen[f] = Absent
    /\ last.doc = "absent"
    /\ exitCode = 0

C6_WitnessFlagSource ==
    /\ pc = "exit"
    /\ exitCode = 1
    /\ Len(errors) = 1
    /\ errors[1].kind = "source_not_found"

-----------------------------------------------------------------------------
(* The flag extractor on generated source texts *)

MaxDecls == 2

NameAb == <<"a", "b">>

NameCd == <<"c", "d">>

TypedRest == <<",", " ", "0", ",", " ", "\"", "u", "\"", ")", "\n">>

CountPRest == <<"\"", "q", "\"", ",", " ", "\"", "u", "\"", ")", "\n">>

LineBreak == <<"\n", "\t">>

\* the declarations of a flag source: a typed setter or CountP (with the
\* short alias q), written on one line or with a line break after the
\* selector dot, after the opening parenthesis or after the comma
FlagDecls ==
    [setter : Range(TypedSetters), name : {NameAb, NameCd},
     layout : {"inline", "break_after_dot", "break_after_paren"}]
    \cup
    [setter : {LitCountP}, name : {NameAb, NameCd},
     layout : {"inline", "break_after_comma", "break_after_paren"}]

\* the Go text of one declaration
FlagDeclText(d) ==
    <<"c">> \o LitFlagsCall
      \o (IF d.layout = "break_after_dot" THEN LineBreak ELSE <<>>)
      \o d.setter \o <<"(">>
      \o (IF d.layout = "break_after_paren" THEN LineBreak ELSE <<>>)
      \o <<Quote>> \o d.name \o <<Quote>>
      \o (IF d.setter = LitCountP
          THEN <<",">> \o (IF d.layout = "break_after_comma" THEN LineBreak ELSE <<" ">>)
                 \o CountPRest
          ELSE TypedRest)

\* sequences of at most MaxDecls declarations with pairwise distinct names
FlagDeclSeqs ==
    UNION {{q \in [1..n -> FlagDecls] :
               \A i, j \in 1..n : q[i].name = q[j].name => i = j} : n \in 0..MaxDecls}

FlagSourceText(ds) == Concat([i \in 1..Len(ds) |-> FlagDeclText(ds[i])])

InitFlags ==
    /\ InitRun
    /\ fn = "flags"
    /\ arg \in {[decls |-> ds, text |-> FlagSourceText(ds)] : ds \in FlagDeclSeqs}
    /\ res = {}

\* lines 65-83 on the text read
ExtractFlagsFromText ==
    /\ fn = "flags"
    /\ res' = ExtractFlags(arg.text)
    /\ fn' = "done"
    /\ UNCHANGED <<arg, runVars>>

NextFlags == ExtractFlagsFromText

SpecFlags == InitFlags /\ [][NextFlags]_vars

DeclNames(ds) == {ds[i].name : i \in 1..Len(ds)}

\* C10: from a text of N valid declarations with distinct long names the
\* flag extractor returns exactly the N long names, whatever the order and
\* the white space between the tokens of a declaration.
C10_ExactlyDeclaredFlags ==
    fn = "done" => res = DeclNames(arg.decls)

\* the layouts the two patterns accept: the declarations written on one
\* line, and CountP with a line break after its comma
C10_AcceptedLayouts ==
    (fn = "done" /\ \A i \in 1..Len(arg.decls) :
                        arg.decls[i].layout \in {"inline", "break_after_comma"})
        => res = DeclNames(arg.decls)

-----------------------------------------------------------------------------
(* The cheatcode extractor and the two counts of check_cheatcodes *)

MaxRegs == 3

RegFa == <<"f", "(", "a", ")">>

RegFb == <<"f", "(", "b", ")">>

RegG == <<"g", "(", ")">>

RegRest == <<"\"", ",", " ", "x", ")", "\n">>

MethodF == <<"f">>

MethodG == <<"g">>

\* a registration: the string registered, on one line or on the next
Registrations == [name : {RegFa, RegFb, RegG}, layout : {"inline", "break_after_paren"}]

RegistrationText(r) ==
    LitAddMethod
      \o (IF r.layout = "break_after_paren" THEN LineBreak ELSE <<>>)
      \o <<Quote>> \o r.name \o RegRest

RegistrationSeqs == UNION {[1..n -> Registrations] : n \in 0..MaxRegs}

CheatcodeSourceText(rs) == Concat([i \in 1..Len(rs) |-> RegistrationText(rs[i])])

InitCheatcodes ==
    /\ InitRun
    /\ fn = "cheatcodes"
    /\ arg \in {[regs |-> rs, text |-> CheatcodeSourceText(rs)] : rs \in RegistrationSeqs}
    /\ res = {}

\* lines 117-122 on the text read: the two numbers printed
CountCheatcodes ==
    /\ fn = "cheatcodes"
    /\ LET cheatcodes == ExtractCheatcodes(arg.text)
       IN  res' = [found |-> Cardinality(cheatcodes),
                   unique |-> Cardinality(BaseMethods(cheatcodes))]
    /\ fn' = "done"
    /\ UNCHANGED <<arg, runVars>>

NextCheatcodes == CountCheatcodes

SpecCheatcodes == InitCheatcodes /\ [][NextCheatcodes]_vars

\* the base name of a generated registration string
RegBase(name) == IF name = RegG THEN MethodG ELSE MethodF

-----------------------------------------------------------------------------
(* The config-field extractor on generated struct definitions *)

MaxFields == 2

KeyW == <<"w">>

KeyAB == <<"a", "B">>

GoExported == <<"A">>

GoUnexported == <<"b">>

TypeInt == <<"i", "n", "t">>

TypeNested == <<"F", "C", "o", "n", "f", "i", "g">>

ModOmitEmptyCased == <<",", "O", "m", "i", "t", "E", "m", "p", "t", "y">>

ModString == <<",", "s", "t", "r", "i", "n", "g">>

StructOpen == LitType \o N_FuzzingConfig \o LitStruct \o <<" ", "{", "\n">>

StructClose == <<"}", "\n">>

\* the modifiers after the key of a json tag
ModLists ==
    {<<>>, <<LitOmitEmpty>>, <<ModOmitEmptyCased>>,
     <<ModString, LitOmitEmpty>>, <<LitOmitEmpty, ModString>>}

\* the fields of a generated struct: exported fields of a plain type with
\* every key and modifier list, an unexported field and a nested config
FieldShapes ==
    [go : {GoExported}, type : {TypeInt}, key : {KeyW, KeyAB}, mods : ModLists]
    \cup
    {[go |-> GoUnexported, type |-> TypeInt, key |-> KeyW, mods |-> <<>>],
     [go |-> GoExported, type |-> TypeNested, key |-> KeyW, mods |-> <<>>]}

\* the Go text of one field: name, type and json tag
FieldText(f) ==
    <<"\t">> \o f.go \o <<" ">> \o f.type \o <<" ">> \o LitJsonTag
      \o f.key \o Concat(f.mods) \o <<Quote, Backtick, "\n">>

FieldSeqs == UNION {[1..n -> FieldShapes] : n \in 0..MaxFields}

StructText(fs) ==
    StructOpen \o Concat([i \in 1..Len(fs) |-> FieldText(fs[i])]) \o StructClose

InitConfigFields ==
    /\ InitRun
    /\ fn = "config_fields"
    /\ arg \in {[fields |-> fs, text |-> StructText(fs)] : fs \in FieldSeqs}
    /\ res = <<>>

\* lines 231-268 on the text read, for struct_names = ["FuzzingConfig"]
ExtractConfigFieldsFromText ==
    /\ fn = "config_fields"
    /\ res' = ExtractConfigFields(arg.text, <<N_FuzzingConfig>>)
    /\ fn' = "done"
    /\ UNCHANGED <<arg, runVars>>

NextConfigFields == ExtractConfigFieldsFromText

SpecConfigFields == InitConfigFields /\ [][NextConfigFields]_vars

\* the tag of the generated field carries the qualifier in some casing
HasOmitEmptyAnyCase(f) ==
    \E i \in 1..Len(f.mods) : f.mods[i] \in {LitOmitEmpty, ModOmitEmptyCased}

\* the tag of the generated field carries the qualifier spelled ,omitempty
HasOmitEmptyExact(f) == \E i \in 1..Len(f.mods) : f.mods[i] = LitOmitEmpty

\* C9 as stated: a field whose key carries an omit-empty qualifier, in any
\* casing and among any other modifiers, puts no entry into the mapping:
\* every key of the mapping comes from a field without the qualifier.
C9_OmitEmptyNeverExtracted ==
    fn = "done" =>
        \A k \in DictKeys(res) :
            \E i \in 1..Len(arg.fields) :
                arg.fields[i].key = k /\ ~HasOmitEmptyAnyCase(arg.fields[i])

\* C9 amended: a field whose tag contains the qualifier spelled exactly
\* ,omitempty puts no entry into the mapping, whatever the casing of its key
\* and the modifiers before or after the qualifier; the mapping holds exactly
\* the keys of the exported, non-nested fields without that spelling, so a
\* field tagged ,OmitEmpty is extracted.
C9_ExactOmitEmptyNeverExtracted ==
    fn = "done" =>
        /\ DictKeys(res) =
              {arg.fields[i].key : i \in
                  {j \in 1..Len(arg.fields) :
                      /\ arg.fields[j].go = GoExported
                      /\ arg.fields[j].type = TypeInt
                      /\ ~HasOmitEmptyExact(arg.fields[j])}}
        /\ \A i \in 1..Len(res) : res[i].struct = N_FuzzingConfig

C9_Witness ==
    /\ fn = "done"
    /\ Len(arg.fields) = 2
    /\ arg.fields[1].key = KeyAB
    /\ arg.fields[1].mods = <<ModString, LitOmitEmpty>>
    /\ arg.fields[2].key = KeyW
    /\ arg.fields[2].mods = <<>>
    /\ arg.fields[2].go = GoExported
    /\ arg.fields[2].type = TypeInt
    /\ DictKeys(res) = {KeyW}

-----------------------------------------------------------------------------
(* The three validators on generated documentation texts *)

\* how a documentation text can mention a flag
FlagForms == {"none", "dashes", "ticks", "bare"}

\* how an interface text can mention a method
MethodForms == {"none", "signature", "call"}

\* how a documentation text can mention a config key
KeyForms == {"none", "ticks", "heading", "heading_lower", "bare"}

\* one line of documentation mentioning name in the given form
Mention(name, form) ==
    CASE form = "none" -> <<>>
      [] form = "dashes" -> LitDashes \o name \o <<"\n">>
      [] form = "ticks" -> <<Backtick>> \o name \o <<Backtick, "\n">>
      [] form = "bare" -> name \o <<"\n">>
      [] form = "signature" -> LitFunction \o name \o <<"(", "a", ")", "\n">>
      [] form = "call" -> name \o <<"(", "a", ")", "\n">>
      [] form = "heading" -> LitHeading \o name \o <<"\n">>
      [] form = "heading_lower" -> LitHeading \o Lower(name) \o <<"\n">>

ValidatorInputs ==
    {[kind |-> "flag", syms |-> S, doc |-> Mention(NameAb, a) \o Mention(NameCd, b)] :
        S \in SUBSET {NameAb, NameCd}, a \in FlagForms, b \in FlagForms}
    \cup
    {[kind |-> "method", syms |-> S, doc |-> Mention(MethodF, a) \o Mention(MethodG, b)] :
        S \in SUBSET {MethodF, MethodG}, a \in MethodForms, b \in MethodForms}
    \cup
    {[kind |-> "config",
      syms |-> [i \in 1..Len(q) |-> [key |-> q[i], struct |-> N_FuzzingConfig]],
      doc |-> Mention(KeyW, a) \o Mention(KeyAB, b)] :
        q \in {<<>>, <<KeyW>>, <<KeyAB>>, <<KeyW, KeyAB>>, <<KeyAB, KeyW>>},
        a \in KeyForms, b \in KeyForms}

InitValidate ==
    /\ InitRun
    /\ fn = "validate"
    /\ arg \in ValidatorInputs
    /\ res = <<>>

\* _validate_flags_documented, lines 95-103, on the text read
ValidateFlagsDocumented ==
    /\ fn = "validate"
    /\ arg.kind = "flag"
    /\ res' \in ValidateFlags(arg.syms, CmdFuzz, FuzzMd, arg.doc)
    /\ fn' = "done"
    /\ UNCHANGED <<arg, runVars>>

\* _validate_cheatcodes_in_interface, lines 158-166, on the text read
ValidateCheatcodesInInterface ==
    /\ fn = "validate"
    /\ arg.kind = "method"
    /\ res' \in ValidateCheatcodes(arg.syms, arg.doc)
    /\ fn' = "done"
    /\ UNCHANGED <<arg, runVars>>

\* _validate_config_fields_documented, lines 280-288, on the text read
ValidateConfigFieldsDocumented ==
    /\ fn = "validate"
    /\ arg.kind = "config"
    /\ res' = ValidateConfigFields(arg.syms, ConfigMappings[1].doc_file, arg.doc)
    /\ fn' = "done"
    /\ UNCHANGED <<arg, runVars>>

NextValidate ==
    \/ ValidateFlagsDocumented
    \/ ValidateCheatcodesInInterface
    \/ ValidateConfigFieldsDocumented

SpecValidate == InitValidate /\ [][NextValidate]_vars

\* the symbols handed to the validator
Symbols == IF arg.kind = "config" THEN DictKeys(arg.syms) ELSE arg.syms

\* the documentation file of the validation
ValidatedFile ==
    CASE arg.kind = "flag" -> FuzzMd
      [] arg.kind = "method" -> InterfaceFile
      [] arg.kind = "config" -> ConfigMappings[1].doc_file

\* the presence test of each kind as specified: the long option or the
\* name in backticks for a flag, "function <name>(" for a method, the key
\* in backticks or a "## <key>" heading equal up to letter case for a field
Present(kind, name, doc) ==
    CASE kind = "flag" ->
            \/ Contains(doc, LitDashes \o name)
            \/ Contains(doc, <<Backtick>> \o name \o <<Backtick>>)
      [] kind = "method" -> Contains(doc, LitFunction \o name \o <<"(">>)
      [] kind = "config" ->
            \/ Contains(doc, <<Backtick>> \o name \o <<Backtick>>)
            \/ Contains(Lower(doc), Lower(LitHeading \o name))

\* C2: on an existing documentation file a validator appends exactly one
\* error for each symbol that fails the presence test of its kind and none
\* for a symbol that passes it; each error names the symbol and the file.
C2_OneErrorPerAbsentSymbol ==
    fn = "done" =>
        LET absent == {x \in Symbols : ~Present(arg.kind, x, arg.doc)}
        IN  /\ Len(res) = Cardinality(absent)
            /\ {res[i].name : i \in 1..Len(res)} = absent
            /\ \A i \in 1..Len(res) : res[i].file = ValidatedFile

\* the same for the flag and the cheatcode validator alone
C2_FlagsAndCheatcodes ==
    (fn = "done" /\ arg.kind \in {"flag", "method"}) =>
        LET absent == {x \in Symbols : ~Present(arg.kind, x, arg.doc)}
        IN  /\ Len(res) = Cardinality(absent)
            /\ {res[i].name : i \in 1..Len(res)} = absent
            /\ \A i \in 1..Len(res) : res[i].file = ValidatedFile

\* C7: a config key that the documentation holds in backticks, or as a
\* "## <key>" heading equal to it up to letter case, produces no error,
\* also when the key has uppercase letters.
C7_HeadingOrBackticksPresent ==
    (fn = "done" /\ arg.kind = "config") =>
        \A k \in Symbols :
            Present("config", k, arg.doc) => \A i \in 1..Len(res) : res[i].name # k

\* the same for the keys without uppercase letters
C7_LowercaseKeys ==
    (fn = "done" /\ arg.kind = "config") =>
        \A k \in Symbols :
            (k = Lower(k) /\ Present("config", k, arg.doc))
                => \A i \in 1..Len(res) : res[i].name # k

====
